---- MODULE Spec2Model ----
(***************************************************************************)
(* Model of src/javascript/license-checker.ts: the LicenseChecker          *)
(* component of projen.  Its constructor takes a project handle and an     *)
(* options record, applies the defaults, runs three validation checks,     *)
(* assembles the license-checker command line and then issues three        *)
(* mutating calls on the project handle.                                    *)
(*                                                                         *)
(* The state is what the constructor can change: the ordered log of        *)
(* mutating calls it has issued on each project handle.  Two history       *)
(* variables record the options of every construction that returned and    *)
(* the outcome of the latest construction.                                  *)
(***************************************************************************)
EXTENDS Integers, Sequences, FiniteSets, TLC

\* ------------------------------------------------------------------ bounds

\* Longest allowedLicenses / prohibitedLicenses list a caller passes.
MaxLicenses == 2

\* Number of LicenseChecker constructions attempted in one behaviour.
MaxConstructions == 2

\* ------------------------------------------------------------------ inputs

\* The project handles a LicenseChecker is constructed on.
Projects == {"projectA", "projectB"}

\* The SPDX identifiers callers list.
Licenses == {"MIT", "Apache-2.0", "GPL-3.0"}

\* Every list of at most MaxLicenses identifiers, repetitions included.
LicenseLists == UNION {[1..n -> Licenses] : n \in 0..MaxLicenses}

\* The lists a repeated construction is given: none, or MaxLicenses
\* identifiers in the order of pool.
SampleLists(pool) == {<<>>, [i \in 1..MaxLicenses |-> pool[((i - 1) % Len(pool)) + 1]]}

OptionNames == {"production", "development", "allowedLicenses", "prohibitedLicenses"}

\* LicenseCheckerOptions over the given lists: every field is optional, so an
\* options record is a function on any subset of the four field names.
OptionsOver(allowedLists, prohibitedLists) ==
  {[f \in D |-> CASE f = "production" -> p
                  [] f = "development" -> d
                  [] f = "allowedLicenses" -> a
                  [] f = "prohibitedLicenses" -> r] :
     D \in SUBSET OptionNames, p \in BOOLEAN, d \in BOOLEAN,
     a \in allowedLists, r \in prohibitedLists}

\* The options of a single construction.
LicenseCheckerOptions == OptionsOver(LicenseLists, LicenseLists)

\* The options of the constructions of a behaviour that constructs repeatedly.
RepeatedOptions ==
  OptionsOver(SampleLists(<<"MIT", "Apache-2.0">>), SampleLists(<<"GPL-3.0", "AGPL-3.0">>))

\* ------------------------------------------------------------------ state

VARIABLES
  calls,        \* calls[p]: the mutating calls issued on project p, in order
  built,        \* built[p]: the options of the constructions on p that returned
  last,         \* the latest construction: its options and the error it threw
  nConstructed  \* constructions attempted so far

vars == <<calls, built, last, nConstructed>>

\* ------------------------------------------------------------------ errors

\* The outcome of a construction that returned.
NoError == "none"

\* The messages of the three errors the constructor throws (the back quotes
\* around the option names are left out).
ScopeError ==
  "LicenseChecker: At least one of production or development must be enabled."

MissingListError ==
  "LicenseChecker: Neither allowedLicenses nor prohibitedLicenses found. Exactly one must be provided and not empty."

ExclusiveError ==
  "LicenseChecker: allowedLicenses and prohibitedLicenses can not be used at the same time. Choose one or the other."

\* ------------------------------------------------------------------ constructor

\* A destructuring default: the field's value, or dflt when the field is omitted.
Default(options, name, dflt) ==
  IF name \in DOMAIN options THEN options[name] ELSE dflt

\* Destructure with the default of production lost: an omitted production
\* reads as false.
DestructureProductionOff(options) ==
  [production |-> Default(options, "production", FALSE),
   development |-> Default(options, "development", FALSE),
   allowedLicenses |-> Default(options, "allowedLicenses", <<>>),
   prohibitedLicenses |-> Default(options, "prohibitedLicenses", <<>>)]

\* const { production = true, development = false,
\*         allowedLicenses = [], prohibitedLicenses = [] } = options;
Destructure(options) ==
  [production |-> Default(options, "production", TRUE),
   development |-> Default(options, "development", FALSE),
   allowedLicenses |-> Default(options, "allowedLicenses", <<>>),
   prohibitedLicenses |-> Default(options, "prohibitedLicenses", <<>>)]

\* Validate with the two list checks ahead of the scope check.
ValidateListsFirst(production, development, allowedLicenses, prohibitedLicenses) ==
  IF Len(allowedLicenses) = 0 /\ Len(prohibitedLicenses) = 0 THEN MissingListError
  ELSE IF Len(allowedLicenses) # 0 /\ Len(prohibitedLicenses) # 0 THEN ExclusiveError
  ELSE IF ~production /\ ~development THEN ScopeError
  ELSE NoError

\* Validate without the missing-list check.
ValidateNoMissingList(production, development, allowedLicenses, prohibitedLicenses) ==
  IF ~production /\ ~development THEN ScopeError
  ELSE IF Len(allowedLicenses) # 0 /\ Len(prohibitedLicenses) # 0 THEN ExclusiveError
  ELSE NoError

\* Validate without the mutual-exclusivity check.
ValidateNoExclusive(production, development, allowedLicenses, prohibitedLicenses) ==
  IF ~production /\ ~development THEN ScopeError
  ELSE IF Len(allowedLicenses) = 0 /\ Len(prohibitedLicenses) = 0 THEN MissingListError
  ELSE NoError

\* Validate without the scope check.
ValidateNoScope(production, development, allowedLicenses, prohibitedLicenses) ==
  IF Len(allowedLicenses) = 0 /\ Len(prohibitedLicenses) = 0 THEN MissingListError
  ELSE IF Len(allowedLicenses) # 0 /\ Len(prohibitedLicenses) # 0 THEN ExclusiveError
  ELSE NoError

\* The three checks, in the order of the code; the first that fails throws.
Validate(production, development, allowedLicenses, prohibitedLicenses) ==
  IF ~production /\ ~development THEN ScopeError
  ELSE IF Len(allowedLicenses) = 0 /\ Len(prohibitedLicenses) = 0 THEN MissingListError
  ELSE IF Len(allowedLicenses) # 0 /\ Len(prohibitedLicenses) # 0 THEN ExclusiveError
  ELSE NoError

\* Array.prototype.join on an array of strings.
RECURSIVE Join(_, _)
Join(strings, sep) ==
  IF Len(strings) = 0 THEN ""
  ELSE IF Len(strings) = 1 THEN strings[1]
  ELSE strings[1] \o sep \o Join(Tail(strings), sep)

\* The template literal `"${licenses.join(";")}"`.
Quoted(licenses) == "\"" \o Join(licenses, ";") \o "\""

\* The tokens pushed for the dependency scope.
ScopeTokens(production, development) ==
  (IF production /\ ~development THEN <<"--production">> ELSE <<>>)
  \o (IF development /\ ~production THEN <<"--development">> ELSE <<>>)

\* ListTokens testing the arrays instead of their lengths: an array is always
\* truthy, so both flags are pushed.
ListTokensTruthy(allowedLicenses, prohibitedLicenses) ==
  <<"--onlyAllow", Quoted(allowedLicenses), "--failOn", Quoted(prohibitedLicenses)>>

\* The tokens pushed for the allow-list and the deny-list.
ListTokens(allowedLicenses, prohibitedLicenses) ==
  (IF Len(allowedLicenses) # 0
     THEN <<"--onlyAllow", Quoted(allowedLicenses)>> ELSE <<>>)
  \o (IF Len(prohibitedLicenses) # 0
        THEN <<"--failOn", Quoted(prohibitedLicenses)>> ELSE <<>>)

\* cmd with the list flags pushed ahead of the scope flag.
cmdListsFirst(production, development, allowedLicenses, prohibitedLicenses) ==
  <<"license-checker", "--summary">>
  \o ListTokens(allowedLicenses, prohibitedLicenses)
  \o ScopeTokens(production, development)

\* The cmd array once every push has run.
cmd(production, development, allowedLicenses, prohibitedLicenses) ==
  <<"license-checker", "--summary">>
  \o ScopeTokens(production, development)
  \o ListTokens(allowedLicenses, prohibitedLicenses)

\* The flags pushed by a sequence of constructions.
RECURSIVE FlagsPushed(_)
FlagsPushed(constructed) ==
  IF constructed = <<>> THEN <<>>
  ELSE LET o == Destructure(Head(constructed))
       IN  ScopeTokens(o.production, o.development)
           \o ListTokens(o.allowedLicenses, o.prohibitedLicenses)
           \o FlagsPushed(Tail(constructed))

\* The flags pushed by the constructions on a set of projects.
RECURSIVE FlagsPushedOn(_)
FlagsPushedOn(projects) ==
  IF projects = {} THEN <<>>
  ELSE LET p == CHOOSE q \in projects : TRUE
       IN  FlagsPushed(built[p]) \o FlagsPushedOn(projects \ {p})

\* Exec with the cmd array shared by all constructions: the flags pushed by
\* earlier constructions are still in it.
ExecSharedCmd(o) ==
  Join(<<"license-checker", "--summary">>
       \o FlagsPushedOn(Projects)
       \o ScopeTokens(o.production, o.development)
       \o ListTokens(o.allowedLicenses, o.prohibitedLicenses), " ")

\* exec: cmd.join(" ").
Exec(o) ==
  Join(cmd(o.production, o.development, o.allowedLicenses, o.prohibitedLicenses), " ")

\* SideEffects with the task registered before the dependency is declared.
SideEffectsTaskFirst(log, exec) ==
  LET task == Len(log) + 1
  IN  <<[op |-> "addTask", name |-> "check-licenses", exec |-> exec,
         receiveArgs |-> TRUE],
        [op |-> "addDevDeps", name |-> "license-checker"],
        [op |-> "spawn", on |-> "preCompileTask", task |-> task]>>

\* The three calls after validation: project.addDevDeps, project.addTask and
\* project.preCompileTask.spawn of the handle addTask returned.  task is the
\* handle, the position of the addTask call in the project's log.
SideEffects(log, exec) ==
  LET task == Len(log) + 2
  IN  <<[op |-> "addDevDeps", name |-> "license-checker"],
        [op |-> "addTask", name |-> "check-licenses", exec |-> exec,
         receiveArgs |-> TRUE],
        [op |-> "spawn", on |-> "preCompileTask", task |-> task]>>

\* Construct with the dependency declared before the options are validated.
ConstructDepsFirst(project, options) ==
  LET o == Destructure(options)
      error == Validate(o.production, o.development,
                        o.allowedLicenses, o.prohibitedLicenses)
  IN  /\ nConstructed' = nConstructed + 1
      /\ last' = [options |-> options, error |-> error]
      /\ IF error # NoError
           THEN /\ calls' = [calls EXCEPT ![project] =
                               Append(@, [op |-> "addDevDeps", name |-> "license-checker"])]
                /\ UNCHANGED built
           ELSE /\ calls' = [calls EXCEPT ![project] =
                               @ \o SideEffects(@, Exec(o))]
                /\ built' = [built EXCEPT ![project] = Append(@, options)]

\* new LicenseChecker(project, options)
Construct(project, options) ==
  LET o == Destructure(options)
      error == Validate(o.production, o.development,
                        o.allowedLicenses, o.prohibitedLicenses)
  IN  /\ nConstructed' = nConstructed + 1
      /\ last' = [options |-> options, error |-> error]
      /\ IF error # NoError
           THEN UNCHANGED <<calls, built>>
           ELSE /\ calls' = [calls EXCEPT ![project] =
                               @ \o SideEffects(@, Exec(o))]
                /\ built' = [built EXCEPT ![project] = Append(@, options)]

\* ------------------------------------------------------------------ specifications

Init ==
  /\ calls = [p \in Projects |-> <<>>]
  /\ built = [p \in Projects |-> <<>>]
  /\ last = [options |-> <<>>, error |-> NoError]
  /\ nConstructed = 0

\* Up to MaxConstructions constructions, on any of the projects.
Next ==
  /\ nConstructed < MaxConstructions
  /\ \E project \in Projects, options \in RepeatedOptions :
       Construct(project, options)

Spec == Init /\ [][Next]_vars

\* One construction on a fresh project, over every options record.
NextOnce ==
  /\ nConstructed = 0
  /\ \E project \in Projects, options \in LicenseCheckerOptions :
       Construct(project, options)

SpecOnce == Init /\ [][NextOnce]_vars

\* ------------------------------------------------------------------ properties

\* The tasks registered on project p, in order of registration.
Tasks(p) == SelectSeq(calls[p], LAMBDA c : c.op = "addTask")

\* The constructions that returned: <<p, i>> is the i-th on project p.
Returned == {c \in Projects \X (1..MaxConstructions) : c[2] <= Len(built[c[1]])}

\* The options of a construction that returned, as the caller gave them.
OptionsOf(c) == built[c[1]][c[2]]

\* Whether the construction has registered its task.
Registered(c) == c[2] <= Len(Tasks(c[1]))

\* The command string of the task the construction registered.
ExecOf(c) == Tasks(c[1])[c[2]].exec

\* The options as the documentation of LicenseCheckerOptions reads them:
\* production is on unless set to false, development is off unless set to true,
\* and a list is given when it is present and not empty.
ProductionOn(options) == "production" \notin DOMAIN options \/ options.production
DevelopmentOn(options) == "development" \in DOMAIN options /\ options.development
ListGiven(options, name) == name \in DOMAIN options /\ options[name] # <<>>
AllowedGiven(options) == ListGiven(options, "allowedLicenses")
ProhibitedGiven(options) == ListGiven(options, "prohibitedLicenses")

\* Whether sub occurs in the string s.
Contains(s, sub) ==
  \E i \in 1..(Len(s) - Len(sub) + 1) : SubSeq(s, i, i + Len(sub) - 1) = sub

\* A construction has been attempted and it threw.
Failed == nConstructed > 0 /\ last.error # NoError

\* A list's identifiers separated by semicolons, built from the left.
RECURSIVE SemicolonSeparated(_)
SemicolonSeparated(list) ==
  IF list = <<>> THEN ""
  ELSE IF Len(list) = 1 THEN list[1]
  ELSE SemicolonSeparated(SubSeq(list, 1, Len(list) - 1)) \o ";" \o list[Len(list)]

\* The reference form of the command of valid options:
\*   license-checker --summary [--production|--development]
\*     (--onlyAllow "<a;b;c>" | --failOn "<x;y;z>")
ReferenceCommand(options) ==
  "license-checker --summary"
  \o (IF ProductionOn(options) /\ DevelopmentOn(options) THEN ""
      ELSE IF ProductionOn(options) THEN " --production"
      ELSE " --development")
  \o (IF AllowedGiven(options)
        THEN " --onlyAllow \"" \o SemicolonSeparated(options.allowedLicenses) \o "\""
        ELSE " --failOn \"" \o SemicolonSeparated(options.prohibitedLicenses) \o "\"")

\* The calls a construction issued on project p between two states.
IssuedOn(p) == SubSeq(calls'[p], Len(calls[p]) + 1, Len(calls'[p]))

\* C1: construction is all-or-nothing: a construction that throws leaves the
\* calls issued on every project as they were, and a construction that returns
\* has issued addDevDeps, addTask and preCompileTask.spawn on one project,
\* after the calls already there, and nothing on the others.
C1_Step ==
  IF last'.error # NoError
    THEN calls' = calls
    ELSE \E p \in Projects :
           /\ \A q \in Projects \ {p} : calls'[q] = calls[q]
           /\ SubSeq(calls'[p], 1, Len(calls[p])) = calls[p]
           /\ Len(IssuedOn(p)) = 3
           /\ {IssuedOn(p)[k].op : k \in 1..3} = {"addDevDeps", "addTask", "spawn"}
C1_AllOrNothing == [][C1_Step]_vars

\* A construction threw after another had registered its task on one project.
C1_Witness ==
  /\ Failed
  /\ \E p \in Projects : Len(calls[p]) = 3
  /\ \E p \in Projects : Len(calls[p]) = 0

\* C2: the exec string of every registered check-licenses task equals the
\* reference form of the options it was constructed with.
C2_ExecMatchesReference ==
  \A c \in Returned : Registered(c) /\ ExecOf(c) = ReferenceCommand(OptionsOf(c))

\* Both scopes with prohibited [GPL-3.0] registered the command without a scope flag.
C2_Witness ==
  \E c \in Returned :
    /\ OptionsOf(c) = [production |-> TRUE, development |-> TRUE,
                       prohibitedLicenses |-> <<"GPL-3.0">>]
    /\ Registered(c)
    /\ ExecOf(c) = "license-checker --summary --failOn \"GPL-3.0\""

\* C3: with neither scope enabled, construction fails with the scope-selection
\* error whatever the two lists hold.
C3_ScopeErrorFirst ==
  nConstructed > 0 /\ ~ProductionOn(last.options) /\ ~DevelopmentOn(last.options)
    => last.error = ScopeError

\* Neither scope enabled and both lists given: the scope-selection error is thrown.
C3_Witness ==
  /\ nConstructed > 0
  /\ ~ProductionOn(last.options) /\ ~DevelopmentOn(last.options)
  /\ AllowedGiven(last.options) /\ ProhibitedGiven(last.options)
  /\ last.error = ScopeError

\* C4 as stated: with both lists empty or omitted, construction fails with the
\* missing-list error whatever production and development are.
C4_AsStated ==
  nConstructed > 0 /\ ~AllowedGiven(last.options) /\ ~ProhibitedGiven(last.options)
    => last.error = MissingListError

\* C4 amended: with both lists empty or omitted and at least one scope enabled,
\* construction fails with the missing-list error; with neither scope enabled
\* it fails with the scope-selection error.
C4_MissingListError ==
  nConstructed > 0 /\ ~AllowedGiven(last.options) /\ ~ProhibitedGiven(last.options)
    => last.error = (IF ProductionOn(last.options) \/ DevelopmentOn(last.options)
                       THEN MissingListError ELSE ScopeError)

\* Both lists omitted, development only: the missing-list error is thrown.
C4_Witness ==
  /\ nConstructed > 0
  /\ last.options = [production |-> FALSE, development |-> TRUE]
  /\ last.error = MissingListError

\* C5 as stated: with both lists non-empty, construction fails with the
\* mutual-exclusivity error whatever production and development are.
C5_AsStated ==
  nConstructed > 0 /\ AllowedGiven(last.options) /\ ProhibitedGiven(last.options)
    => last.error = ExclusiveError

\* C5 amended: with both lists non-empty and at least one scope enabled,
\* construction fails with the mutual-exclusivity error; with neither scope
\* enabled it fails with the scope-selection error.
C5_ExclusiveError ==
  nConstructed > 0 /\ AllowedGiven(last.options) /\ ProhibitedGiven(last.options)
    => last.error = (IF ProductionOn(last.options) \/ DevelopmentOn(last.options)
                       THEN ExclusiveError ELSE ScopeError)

\* Both lists given, production by default: the mutual-exclusivity error is thrown.
C5_Witness ==
  /\ nConstructed > 0
  /\ "production" \notin DOMAIN last.options
  /\ AllowedGiven(last.options) /\ ProhibitedGiven(last.options)
  /\ last.error = ExclusiveError

\* C6 as stated: every construction that returns has exactly one of production
\* and development on after defaults.
C6_AsStated ==
  \A c \in Returned : ProductionOn(OptionsOf(c)) # DevelopmentOn(OptionsOf(c))

\* C6 amended: every construction that returns has at least one of production
\* and development on after defaults (both may be on).
C6_SomeScope ==
  \A c \in Returned : ProductionOn(OptionsOf(c)) \/ DevelopmentOn(OptionsOf(c))

\* A construction with both scopes on returned and registered its task.
C6_Witness ==
  \E c \in Returned :
    /\ ProductionOn(OptionsOf(c)) /\ DevelopmentOn(OptionsOf(c))
    /\ Registered(c)

\* C7: every construction that returns was given exactly one of the two lists,
\* and the command it registered contains exactly one of --onlyAllow and --failOn:
\* the one of the list given.
C7_ExactlyOneList ==
  \A c \in Returned :
    /\ AllowedGiven(OptionsOf(c)) # ProhibitedGiven(OptionsOf(c))
    /\ Registered(c)
    /\ Contains(ExecOf(c), "--onlyAllow") = AllowedGiven(OptionsOf(c))
    /\ Contains(ExecOf(c), "--failOn") = ProhibitedGiven(OptionsOf(c))

\* An allow-list construction returned; its command has --onlyAllow and no --failOn.
C7_Witness ==
  \E c \in Returned :
    /\ AllowedGiven(OptionsOf(c))
    /\ "prohibitedLicenses" \in DOMAIN OptionsOf(c)
    /\ Registered(c)
    /\ Contains(ExecOf(c), "--onlyAllow") /\ ~Contains(ExecOf(c), "--failOn")

\* C8: the calls on every project are, for each construction that returned and
\* in this order, the development dependency on license-checker, the task
\* check-licenses with receiveArgs set and the constructed command as exec, and
\* the spawn into the pre-compile task of the handle that addTask returned;
\* there is no other call.
C8_ThreeCallsInOrder ==
  \A p \in Projects :
    /\ Len(calls[p]) = 3 * Len(built[p])
    /\ \A i \in 1..Len(built[p]) :
         /\ calls[p][3 * i - 2] = [op |-> "addDevDeps", name |-> "license-checker"]
         /\ calls[p][3 * i - 1] =
              [op |-> "addTask", name |-> "check-licenses",
               exec |-> ReferenceCommand(built[p][i]), receiveArgs |-> TRUE]
         /\ calls[p][3 * i] =
              [op |-> "spawn", on |-> "preCompileTask", task |-> 3 * i - 1]

\* Two constructions returned on one project: six calls, the second spawn
\* naming the second task.
C8_Witness ==
  \E p \in Projects :
    /\ Len(built[p]) = 2
    /\ Len(calls[p]) = 6
    /\ calls[p][6].op = "spawn" /\ calls[p][6].task = 5

C10_ScopeFlags ==
  /\ \A c \in Returned :
       LET options == OptionsOf(c)
       IN  /\ Registered(c)
           /\ Contains(ExecOf(c), "--development") =
                (/\ "production" \in DOMAIN options /\ options.production = FALSE
                 /\ "development" \in DOMAIN options /\ options.development = TRUE)
           /\ Contains(ExecOf(c), "--production") =
                (/\ "production" \in DOMAIN options => options.production = TRUE
                 /\ "development" \in DOMAIN options => options.development = FALSE)
           /\ ~(Contains(ExecOf(c), "--development") /\ Contains(ExecOf(c), "--production"))
  /\ (/\ nConstructed > 0
      /\ "production" \notin DOMAIN last.options
      /\ DevelopmentOn(last.options)
      /\ AllowedGiven(last.options) # ProhibitedGiven(last.options))
       => last.error = NoError

\* Only development = true was set (production omitted): the construction
\* returned and its command has no scope flag.
C10_Witness ==
  \E c \in Returned :
    /\ OptionsOf(c) = [development |-> TRUE, allowedLicenses |-> <<"MIT", "Apache-2.0">>]
    /\ Registered(c)
    /\ ExecOf(c) = "license-checker --summary --onlyAllow \"MIT;Apache-2.0\""
====
